---------------------------- MODULE Spec2Model ----------------------------
(***************************************************************************)
(* Checkout / payment reconciliation and register-session accounting of    *)
(* the vendor e-commerce backend (app/routers/cart.py,                     *)
(* app/routers/cashier.py, app/crud/cart.py, app/models).                  *)
(*                                                                         *)
(* Every HTTP request runs in its own SQLAlchemy session, so a request is  *)
(* a process whose steps are its database round trips: a step is either a  *)
(* read (query) or a commit.  Rows written between two commits are kept in *)
(* the process's local state and reach the tables at the next db.commit(); *)
(* db.rollback() discards them.  Money is counted in integer minor units.  *)
(***************************************************************************)
EXTENDS Integers, Sequences, FiniteSets, TLC

VARIABLES
    cartItems,         \* table cart_items: set of rows
    nextCartId,        \* serial of cart_items.id
    pendingCheckouts,  \* table pending_checkouts: set of rows
    nextGatewayId,     \* the payment gateway's order counter
    orders,            \* table orders: sequence of rows, id = position
    orderItems,        \* table order_items: sequence of rows
    registerSessions,  \* table register_sessions: sequence of rows, id = position
    stock,             \* products.stock, per product id
    pricingTiers,      \* table product_pricing_tiers: set of rows, per product id
    quote,             \* the unit prices the two pricing endpoints returned last
    pc,                \* per request process: where the handler stands
    loc,               \* per request process: the handler's local variables
    resp               \* the response sent last

vars == <<cartItems, nextCartId, pendingCheckouts, nextGatewayId, orders,
          orderItems, registerSessions, stock, pricingTiers, quote, pc, loc, resp>>

dbPay == <<cartItems, nextCartId, pendingCheckouts, nextGatewayId>>
dbPos == <<registerSessions, stock>>
dbOrders == <<orders, orderItems>>
dbCatalogue == <<pricingTiers, quote>>

(***************************************************************************)
(* Bounds of the model.                                                    *)
(***************************************************************************)
MaxQuantity == 2       \* largest quantity of a cart line or POS line
MaxCheckouts == 1      \* pending checkouts ever created
MaxOrders == 2         \* rows ever inserted into orders

Procs == {1, 2}        \* concurrent request handlers
Users == {1, 2}
Vendors == {1, 2}
Products == {1, 2}
\* rows ever inserted into cart_items: one per product of the catalogue
MaxCartRows == Cardinality(Products)

\* products.vendor_id of the catalogue the model runs on
ProductVendor(p) == IF p = 1 THEN 1 ELSE 2
\* products.price of the catalogue
ProductPrice(p) == IF p = 1 THEN 10 ELSE 7
\* product_pricing_tiers rows the catalogue starts with, per product
InitialTiers == [p \in Products |-> IF p = 1 THEN {[moq |-> 2, price |-> 8]} ELSE {}]
\* product_pricing_tiers rows of a product
ProductTiers(p) == pricingTiers[p]

NoneVal == "None"
IdleLoc == [kind |-> "idle"]

(***************************************************************************)
(* Helpers on sets and sequences.                                          *)
(***************************************************************************)
RECURSIVE SumSeq(_)
SumSeq(s) == IF s = <<>> THEN 0 ELSE Head(s) + SumSeq(Tail(s))

\* rows of a table given as a set of records with an id, in id order
RECURSIVE RowsById(_)
RowsById(S) ==
    IF S = {} THEN <<>>
    ELSE LET r == CHOOSE x \in S : \A y \in S : x.id <= y.id
         IN  <<r>> \o RowsById(S \ {r})

SeqToSet(s) == {s[i] : i \in DOMAIN s}

RECURSIVE Dedup(_)
Dedup(s) ==
    IF s = <<>> THEN <<>>
    ELSE <<Head(s)>> \o Dedup(SelectSeq(Tail(s), LAMBDA x : x # Head(s)))

\* dict.get(key): None when the key is absent
Get(m, k) == IF k \in DOMAIN m THEN m[k] ELSE NoneVal

EmptyMeta == <<>>
VariantKeys == {"selected_size", "selected_color"}

(***************************************************************************)
(* Pricing resolvers of the web cart and of the cashier.                   *)
(***************************************************************************)
\* the results of SELECT ... ORDER BY moq DESC over a set of tiers: rows of
\* equal moq come in an order the database chooses
RECURSIVE ScansOf(_)
ScansOf(S) ==
    IF S = {} THEN {<<>>}
    ELSE LET top == {t \in S : \A u \in S : t.moq >= u.moq}
         IN  UNION {{<<t>> \o s : s \in ScansOf(S \ {t})} : t \in top}

TierScans(product) == ScansOf(ProductTiers(product))

\* the position of the first tier of a scan with quantity >= moq, 0 if none
FirstHit(scan, quantity) ==
    LET hits == {i \in DOMAIN scan : quantity >= scan[i].moq}
    IN  IF hits = {} THEN 0 ELSE CHOOSE i \in hits : \A j \in hits : i <= j

\* a cashier resolver that falls back on the flat price and not on the tier
\* of the smallest moq
ScanCashierFlatFallback(scan, product, quantity) ==
    IF FirstHit(scan, quantity) # 0 THEN scan[FirstHit(scan, quantity)].price
    ELSE ProductPrice(product)

\* cart.py lines 82-91, on the rows the query of lines 77-79 returned
ScanCart(scan, product, quantity) ==
    IF FirstHit(scan, quantity) # 0 THEN scan[FirstHit(scan, quantity)].price
    ELSE IF scan # <<>> THEN scan[Len(scan)].price
    ELSE ProductPrice(product)

\* cashier.py lines 92-98, on the rows the query of lines 88-90 returned
ScanCashier(scan, product, quantity) ==
    IF FirstHit(scan, quantity) # 0 THEN scan[FirstHit(scan, quantity)].price
    ELSE IF scan # <<>> THEN scan[Len(scan)].price
    ELSE IF ProductPrice(product) # 0 THEN ProductPrice(product) ELSE 0

\* get_price_for_quantity of the web cart; the tiers of the catalogues the
\* checkout runs on have distinct moqs, so the query has one result
GetPriceCart(product, quantity) ==
    ScanCart(CHOOSE s \in TierScans(product) : TRUE, product, quantity)

NoPrice == [product |-> 0, quantity |-> 0, price |-> 0]
NoQuote == [cart |-> NoPrice, cashier |-> NoPrice]

\* GET /items resolving the unit price of a cart line (cart.py line 112)
QuoteCart(product, quantity) ==
    /\ \E scan \in TierScans(product) :
          quote' = [quote EXCEPT !.cart =
                      [product |-> product, quantity |-> quantity,
                       price |-> ScanCart(scan, product, quantity)]]
    /\ UNCHANGED <<dbPay, dbOrders, dbPos, pricingTiers, pc, loc, resp>>

\* GET /cashier/product/{id}/pricing (cashier.py lines 202-218)
QuoteCashier(product, quantity) ==
    /\ \E scan \in TierScans(product) :
          quote' = [quote EXCEPT !.cashier =
                      [product |-> product, quantity |-> quantity,
                       price |-> ScanCashier(scan, product, quantity)]]
    /\ UNCHANGED <<dbPay, dbOrders, dbPos, pricingTiers, pc, loc, resp>>

(***************************************************************************)
(* Cart store.                                                             *)
(***************************************************************************)
InCart(u, product) ==
    {c \in cartItems : c.user_id = u /\ c.product_id = product /\ c.status = "in_cart"}

\* a lookup that compares the whole metadata and not its size and color
ExistingItemsExactMeta(u, product, meta) ==
    {c \in InCart(u, product) : c.item_metadata = meta}

\* a lookup that does not look at the variant
ExistingItemsAnyVariant(u, product, meta) == InCart(u, product)

\* the lines add_to_cart may pick as existing_item
ExistingItems(u, product, meta) ==
    IF meta # EmptyMeta /\ (DOMAIN meta \cap VariantKeys) # {}
    THEN {c \in InCart(u, product) :
            /\ c.item_metadata # EmptyMeta
            /\ Get(meta, "selected_size") = Get(c.item_metadata, "selected_size")
            /\ Get(meta, "selected_color") = Get(c.item_metadata, "selected_color")}
    ELSE InCart(u, product)

\* a merge that stores the metadata sent in place of the metadata of the line
MergeMetaReplace(old, new) == new

\* existing metadata with the non-variant keys of the new metadata merged in
MergeMeta(old, new) ==
    [k \in DOMAIN old \cup (DOMAIN new \ VariantKeys) |->
        IF k \in DOMAIN new \ VariantKeys THEN new[k] ELSE old[k]]

\* lines 65-71: the metadata the UPDATE of the line stores.  The map of a line
\* that has one is changed in place and assigned back to the attribute, so
\* the ORM compares the map with itself at the flush and may leave the
\* column out of the UPDATE; a line without metadata gets a new map
MetaWritten(old, new) ==
    IF old = EmptyMeta \/ new = EmptyMeta
    THEN {MergeMeta(old, new)}
    ELSE {MergeMeta(old, new), old}

AddToCart(p, u, product, quantity, meta) ==
    /\ pc[p] = "idle"
    /\ LET existing == ExistingItems(u, product, meta)
       IN  IF existing # {}
           THEN \E e \in existing : \E written \in MetaWritten(e.item_metadata, meta) :
                  /\ e.quantity + quantity <= MaxQuantity
                  /\ cartItems' = (cartItems \ {e}) \cup
                        {[e EXCEPT !.quantity = e.quantity + quantity,
                                   !.item_metadata = written]}
                  /\ UNCHANGED nextCartId
           ELSE /\ nextCartId <= MaxCartRows
                /\ cartItems' = cartItems \cup
                        {[id |-> nextCartId, user_id |-> u, product_id |-> product,
                          quantity |-> quantity, status |-> "in_cart",
                          item_metadata |-> meta]}
                /\ nextCartId' = nextCartId + 1
    /\ resp' = "200"
    /\ UNCHANGED <<dbCatalogue, pendingCheckouts, nextGatewayId, dbOrders, dbPos, pc, loc>>

\* cart_items rows a running add_to_cart will still insert
AddReserved == Cardinality({q \in Procs : pc[q] = "add_commit" /\ loc[q].existing = 0})

\* add_to_cart as the database sees it.  Lines 16-55: the lookup of the
\* existing line; the new quantity and metadata are computed from the row read
AddBegin(p, u, product, quantity, meta) ==
    /\ pc[p] = "idle"
    /\ LET existing == ExistingItems(u, product, meta)
       IN  IF existing # {}
           THEN \E e \in existing : \E written \in MetaWritten(e.item_metadata, meta) :
                  /\ e.quantity + quantity <= MaxQuantity
                  /\ loc' = [loc EXCEPT ![p] =
                              [kind |-> "add", existing |-> e.id,
                               row |-> [e EXCEPT !.quantity = e.quantity + quantity,
                                                 !.item_metadata = written]]]
           ELSE /\ nextCartId + AddReserved <= MaxCartRows
                /\ loc' = [loc EXCEPT ![p] =
                              [kind |-> "add", existing |-> 0,
                               row |-> [id |-> 0, user_id |-> u, product_id |-> product,
                                        quantity |-> quantity, status |-> "in_cart",
                                        item_metadata |-> meta]]]
    /\ pc' = [pc EXCEPT ![p] = "add_commit"]
    /\ UNCHANGED <<dbCatalogue, dbPay, dbOrders, dbPos, resp>>

\* lines 72 and 88-89: UPDATE cart_items SET quantity, item_metadata WHERE id =
\* the line read, or INSERT of the new line; then the commit
AddCommit(p) ==
    /\ pc[p] = "add_commit"
    /\ LET l == loc[p]
       IN  IF l.existing # 0
           THEN /\ cartItems' = {IF c.id = l.existing
                                  THEN [c EXCEPT !.quantity = l.row.quantity,
                                                 !.item_metadata = l.row.item_metadata]
                                  ELSE c : c \in cartItems}
                /\ UNCHANGED nextCartId
           ELSE /\ cartItems' = cartItems \cup {[l.row EXCEPT !.id = nextCartId]}
                /\ nextCartId' = nextCartId + 1
    /\ pc' = [pc EXCEPT ![p] = "idle"]
    /\ loc' = [loc EXCEPT ![p] = IdleLoc]
    /\ resp' = "200"
    /\ UNCHANGED <<dbCatalogue, pendingCheckouts, nextGatewayId, dbOrders, dbPos>>

\* a lookup of the line by its id alone
OwnLinesAnyUser(u, item_id) == {c \in cartItems : c.id = item_id}

\* the cart lines a caller may name: the line of that id, if it is the caller's
OwnLines(u, item_id) == {c \in cartItems : c.id = item_id /\ c.user_id = u}

\* PUT /update/{item_id}
UpdateCartItem(p, u, item_id, quantity) ==
    /\ pc[p] = "idle"
    /\ IF OwnLines(u, item_id) = {}
       THEN /\ resp' = "CartItemNotFound"
            /\ UNCHANGED cartItems
       ELSE /\ cartItems' = {IF c \in OwnLines(u, item_id)
                              THEN [c EXCEPT !.quantity = quantity] ELSE c : c \in cartItems}
            /\ resp' = "200"
    /\ UNCHANGED <<dbCatalogue, nextCartId, pendingCheckouts, nextGatewayId, dbOrders, dbPos, pc, loc>>

\* DELETE /remove/{item_id}
RemoveCartItem(p, u, item_id) ==
    /\ pc[p] = "idle"
    /\ IF OwnLines(u, item_id) = {}
       THEN /\ resp' = "CartItemNotFound"
            /\ UNCHANGED cartItems
       ELSE /\ cartItems' = cartItems \ OwnLines(u, item_id)
            /\ resp' = "200"
    /\ UNCHANGED <<dbCatalogue, nextCartId, pendingCheckouts, nextGatewayId, dbOrders, dbPos, pc, loc>>

\* update_enhanced_product: the tiers of a product are deleted and the tiers
\* sent are stored
SetPricingTiers(p, product, tiers) ==
    /\ pc[p] = "idle"
    /\ pricingTiers' = [pricingTiers EXCEPT ![product] = tiers]
    /\ resp' = "200"
    /\ UNCHANGED <<quote, dbPay, dbOrders, dbPos, pc, loc>>

(***************************************************************************)
(* Checkout preparer.                                                      *)
(***************************************************************************)
\* one entry of prepared_orders: the bucket of vendor v over the selected rows
PreparedOrder(v, rows) ==
    LET mine  == SelectSeq(rows, LAMBDA c : ProductVendor(c.product_id) = v)
        price(c) == GetPriceCart(c.product_id, c.quantity)
    IN  [vendor_id |-> v,
         total_amount |-> SumSeq([i \in DOMAIN mine |-> price(mine[i]) * mine[i].quantity]),
         items_count |-> SumSeq([i \in DOMAIN mine |-> mine[i].quantity]),
         order_items |-> [i \in DOMAIN mine |->
                            [product_id |-> mine[i].product_id,
                             quantity |-> mine[i].quantity,
                             price |-> price(mine[i]),
                             total_price |-> price(mine[i]) * mine[i].quantity,
                             cart_item_id |-> mine[i].id,
                             item_metadata |-> mine[i].item_metadata]],
         cart_item_ids |-> [i \in DOMAIN mine |-> mine[i].id]]

\* a breakdown with one entry per cart line and not per vendor
PreparedOrdersPerLine(rows) ==
    [k \in DOMAIN rows |-> PreparedOrder(ProductVendor(rows[k].product_id), <<rows[k]>>)]

PreparedOrders(rows) ==
    LET vs == Dedup([i \in DOMAIN rows |-> ProductVendor(rows[i].product_id)])
    IN  [k \in DOMAIN vs |-> PreparedOrder(vs[k], rows)]

\* a selection that leaves out the lines a pending checkout already holds
CheckoutBaseUnstaged(u) ==
    {c \in cartItems :
        /\ c.user_id = u /\ c.status = "in_cart"
        /\ ~\E d \in pendingCheckouts : \E k \in DOMAIN d.prepared_orders :
                c.id \in SeqToSet(d.prepared_orders[k].cart_item_ids)}

\* a selection that leaves out the filter on the owner
CheckoutBaseAnyUser(u) == {c \in cartItems : c.status = "in_cart"}

\* lines 203-206: the caller's in_cart lines
CheckoutBase(u) == {c \in cartItems : c.user_id = u /\ c.status = "in_cart"}

\* ids: the requested cart_item_ids, <<>> when omitted (or an empty list)
CheckoutPrepare(p, u, ids) ==
    /\ pc[p] = "idle"
    /\ LET base == CheckoutBase(u)
           sel  == IF ids # <<>> THEN {c \in base : c.id \in SeqToSet(ids)} ELSE base
           rows == RowsById(sel)
           prepared == PreparedOrders(rows)
           final_amount == SumSeq([k \in DOMAIN prepared |-> prepared[k].total_amount]) + 0
       IN  IF ids # <<>> /\ Cardinality(sel) # Len(ids)
           THEN /\ resp' = "InvalidSelection"
                /\ UNCHANGED <<pendingCheckouts, nextGatewayId>>
           ELSE IF sel = {}
           THEN /\ resp' = "NoItemsSelected"
                /\ UNCHANGED <<pendingCheckouts, nextGatewayId>>
           ELSE /\ nextGatewayId <= MaxCheckouts
                /\ pendingCheckouts' = pendingCheckouts \cup
                      {[id |-> Cardinality(pendingCheckouts) + 1,
                        user_id |-> u,
                        razorpay_order_id |-> nextGatewayId,
                        total_amount |-> final_amount,
                        prepared_orders |-> prepared,
                        cart_item_ids |-> ids,
                        status |-> "pending",
                        completed_at |-> NoneVal]}
                /\ nextGatewayId' = nextGatewayId + 1
                /\ resp' = "200"
    /\ UNCHANGED <<dbCatalogue, cartItems, nextCartId, dbOrders, dbPos, pc, loc>>

\* checkout-prepare as the database and the gateway see it.  Lines 203-311:
\* the selection, the breakdown and the order the gateway creates; the
\* PendingCheckout is kept in the session
CheckoutBegin(p, u, ids, maxCheckouts) ==
    /\ pc[p] = "idle"
    /\ LET base == CheckoutBase(u)
           sel  == IF ids # <<>> THEN {c \in base : c.id \in SeqToSet(ids)} ELSE base
           rows == RowsById(sel)
           prepared == PreparedOrders(rows)
           final_amount == SumSeq([k \in DOMAIN prepared |-> prepared[k].total_amount]) + 0
       IN  IF ids # <<>> /\ Cardinality(sel) # Len(ids)
           THEN /\ resp' = "InvalidSelection"
                /\ UNCHANGED <<nextGatewayId, pc, loc>>
           ELSE IF sel = {}
           THEN /\ resp' = "NoItemsSelected"
                /\ UNCHANGED <<nextGatewayId, pc, loc>>
           ELSE /\ nextGatewayId <= maxCheckouts
                /\ nextGatewayId' = nextGatewayId + 1
                /\ pc' = [pc EXCEPT ![p] = "co_commit"]
                /\ loc' = [loc EXCEPT ![p] =
                            [kind |-> "stage",
                             row |-> [user_id |-> u,
                                      razorpay_order_id |-> nextGatewayId,
                                      total_amount |-> final_amount,
                                      prepared_orders |-> prepared,
                                      cart_item_ids |-> ids,
                                      status |-> "pending",
                                      completed_at |-> NoneVal]]]
                /\ UNCHANGED resp
    /\ UNCHANGED <<dbCatalogue, cartItems, nextCartId, pendingCheckouts, dbOrders, dbPos>>

\* lines 313-331: the insert of the PendingCheckout and its commit; a commit
\* that raises stores nothing
CheckoutCommit(p, ok) ==
    /\ pc[p] = "co_commit"
    /\ IF ok
       THEN /\ pendingCheckouts' = pendingCheckouts \cup
                  {[id |-> Cardinality(pendingCheckouts) + 1,
                    user_id |-> loc[p].row.user_id,
                    razorpay_order_id |-> loc[p].row.razorpay_order_id,
                    total_amount |-> loc[p].row.total_amount,
                    prepared_orders |-> loc[p].row.prepared_orders,
                    cart_item_ids |-> loc[p].row.cart_item_ids,
                    status |-> loc[p].row.status,
                    completed_at |-> loc[p].row.completed_at]}
            /\ resp' = "200"
       ELSE /\ UNCHANGED pendingCheckouts
            /\ resp' = "PersistenceError"
    /\ pc' = [pc EXCEPT ![p] = "idle"]
    /\ loc' = [loc EXCEPT ![p] = IdleLoc]
    /\ UNCHANGED <<dbCatalogue, cartItems, nextCartId, nextGatewayId, dbOrders, dbPos>>

(***************************************************************************)
(* Payment verifier and order materializer (verify_payment).               *)
(***************************************************************************)
\* settings.razorpay_key_secret, and a key that is not it
KeySecret == "key_secret"
KeyOther == "key_other"
PaymentIds == {"pay_A"}
GatewayOrderIds == 1..(MaxCheckouts + 1)

\* hmac.new(key, "<order id>|<payment id>", sha256).hexdigest(): a digest that
\* differs whenever the key or the message differs
HmacSha256(key, orderId, paymentId) == <<"sha256", key, orderId, paymentId>>

\* the signatures a caller may present: genuine ones, and ones made for another
\* key, order id or payment id
Signatures ==
    {HmacSha256(KeySecret, o, y) : o \in GatewayOrderIds, y \in PaymentIds}
        \cup {HmacSha256(KeyOther, 1, y) : y \in PaymentIds}

\* the orders a running verify_payment will still insert
Remaining(q) ==
    IF pc[q] = "v_order" THEN Len(loc[q].prepared) - loc[q].idx + 1
    ELSE IF pc[q] = "ck_order" THEN 1 ELSE 0

RECURSIVE SumOver(_, _)
SumOver(S, f) ==
    IF S = {} THEN 0
    ELSE LET x == CHOOSE y \in S : TRUE IN f[x] + SumOver(S \ {x}, f)

Reserved == SumOver(Procs, [q \in Procs |-> Remaining(q)])

\* a check that compares the key and the payment id and not the order id
SignatureOkAnyOrder(orderId, paymentId, signature) ==
    signature[2] = KeySecret /\ signature[4] = paymentId

\* a check that compares the message and not the key
SignatureOkAnyKey(orderId, paymentId, signature) ==
    signature[3] = orderId /\ signature[4] = paymentId

\* lines 422-434: the signature check
SignatureOk(orderId, paymentId, signature) ==
    HmacSha256(KeySecret, orderId, paymentId) = signature

\* a lookup that leaves out the filter on the caller
LookupPendingAnyUser(u, orderId) ==
    {c \in pendingCheckouts : c.razorpay_order_id = orderId}

\* lines 438-441: the pending checkout the handler loads
LookupPending(u, orderId) ==
    {c \in pendingCheckouts : c.razorpay_order_id = orderId /\ c.user_id = u}

VerifyBegin(p, u, orderId, paymentId, signature) ==
    /\ pc[p] = "idle"
    /\ IF ~SignatureOk(orderId, paymentId, signature)
       THEN /\ resp' = "SignatureMismatch"
            /\ UNCHANGED <<pc, loc>>
       ELSE IF LookupPending(u, orderId) = {}
       THEN /\ resp' = "PendingCheckoutNotFound"
            /\ UNCHANGED <<pc, loc>>
       ELSE \E c \in LookupPending(u, orderId) :
            /\ Len(orders) + Reserved + Len(c.prepared_orders) <= MaxOrders
            /\ pc' = [pc EXCEPT ![p] =
                        IF c.prepared_orders = <<>> THEN "v_final" ELSE "v_order"]
            /\ loc' = [loc EXCEPT ![p] =
                        [kind |-> "verify", user |-> u, orderId |-> orderId,
                         paymentId |-> paymentId, pcid |-> c.id,
                         prepared |-> c.prepared_orders, idx |-> 1,
                         newItems |-> <<>>, cartIds |-> {}]]
            /\ UNCHANGED resp
    /\ UNCHANGED <<dbCatalogue, dbPay, dbOrders, dbPos>>

\* an update that marks the lines of every user but the caller
MarkCheckoutOthers(rows, ids, u) ==
    {IF c.id \in ids /\ c.user_id # u THEN [c EXCEPT !.status = "checkout"] ELSE c
        : c \in rows}

\* lines 553-556: UPDATE cart_items SET status = 'checkout'
\*                WHERE id IN ids AND user_id = u
MarkCheckout(rows, ids, u) ==
    {IF c.id \in ids /\ c.user_id = u THEN [c EXCEPT !.status = "checkout"] ELSE c
        : c \in rows}

\* an Order whose total is taken from the cart lines as they are now
OnlineOrderLive(order_data, orderId, paymentId) ==
    LET live == {c \in cartItems : c.id \in SeqToSet(order_data.cart_item_ids)}
    IN  [vendor_id |-> order_data.vendor_id,
         total_amount |-> SumOver(live, [c \in live |->
                              GetPriceCart(c.product_id, c.quantity) * c.quantity]),
         status |-> "Pending",
         razorpay_order_id |-> orderId,
         razorpay_payment_id |-> paymentId,
         order_type |-> "online",
         payment_method |-> "cash",
         register_session_id |-> NoneVal]

\* lines 511-522: the Order row of one prepared order
OnlineOrder(order_data, orderId, paymentId) ==
    [vendor_id |-> order_data.vendor_id,
     total_amount |-> order_data.total_amount,
     status |-> "Pending",
     razorpay_order_id |-> orderId,
     razorpay_payment_id |-> paymentId,
     order_type |-> "online",
     payment_method |-> "cash",
     register_session_id |-> NoneVal]

\* lines 530-542: the OrderItem rows of one prepared order
OnlineOrderItems(order_data, order_id) ==
    [i \in DOMAIN order_data.order_items |->
        [product_id |-> order_data.order_items[i].product_id,
         quantity |-> order_data.order_items[i].quantity,
         price |-> order_data.order_items[i].price,
         vendor_id |-> order_data.vendor_id,
         order_id |-> order_id]]

\* One turn of the loop of lines 498-579.  db.commit() of line 524 makes the
\* new Order durable together with the OrderItems and cart updates the previous
\* turn left in the session; the OrderItems and the cart update of this turn
\* stay in the session.  outcome: "ok"; "commit_fails" (line 524 raises);
\* "items_fail" (a statement after the commit raises).  Either failure runs
\* db.rollback() of line 578, which discards only what is not committed.
VerifyOrder(p, outcome) ==
    /\ pc[p] = "v_order"
    /\ LET l == loc[p]
           order_data == l.prepared[l.idx]
           new_id == Len(orders) + 1
       IN  IF outcome = "commit_fails"
           THEN /\ UNCHANGED <<orders, orderItems, cartItems>>
                /\ pc' = [pc EXCEPT ![p] = "idle"]
                /\ loc' = [loc EXCEPT ![p] = IdleLoc]
                /\ resp' = "OrderCreationFailed"
           ELSE /\ orders' = Append(orders, OnlineOrder(order_data, l.orderId, l.paymentId))
                /\ orderItems' = orderItems \o l.newItems
                /\ cartItems' = MarkCheckout(cartItems, l.cartIds, l.user)
                /\ IF outcome = "items_fail"
                   THEN /\ pc' = [pc EXCEPT ![p] = "idle"]
                        /\ loc' = [loc EXCEPT ![p] = IdleLoc]
                        /\ resp' = "OrderCreationFailed"
                   ELSE /\ pc' = [pc EXCEPT ![p] =
                                    IF l.idx = Len(l.prepared) THEN "v_final" ELSE "v_order"]
                        /\ loc' = [loc EXCEPT ![p] =
                                    [l EXCEPT !.idx = l.idx + 1,
                                              !.newItems = OnlineOrderItems(order_data, new_id),
                                              !.cartIds = SeqToSet(order_data.cart_item_ids)]]
                        /\ UNCHANGED resp
    /\ UNCHANGED <<dbCatalogue, nextCartId, pendingCheckouts, nextGatewayId, dbPos>>

\* lines 581-588: mark the pending checkout completed and commit; the commit
\* also carries what the last turn of the loop left in the session
VerifyFinal(p, ok) ==
    /\ pc[p] = "v_final"
    /\ LET l == loc[p]
       IN  IF ok
           THEN /\ orderItems' = orderItems \o l.newItems
                /\ cartItems' = MarkCheckout(cartItems, l.cartIds, l.user)
                /\ pendingCheckouts' =
                      {IF c.id = l.pcid
                       THEN [c EXCEPT !.status = "completed", !.completed_at = "set"]
                       ELSE c : c \in pendingCheckouts}
                /\ resp' = "200"
           ELSE /\ UNCHANGED <<orderItems, cartItems, pendingCheckouts>>
                /\ resp' = "PersistenceError"
    /\ pc' = [pc EXCEPT ![p] = "idle"]
    /\ loc' = [loc EXCEPT ![p] = IdleLoc]
    /\ UNCHANGED <<dbCatalogue, nextCartId, nextGatewayId, orders, dbPos>>

(***************************************************************************)
(* Register session ledger (open_register, close_register).                *)
(***************************************************************************)
MaxSessions == 1       \* rows inserted into register_sessions by requests in sequence
MaxSales == 1          \* POS sales made by requests in sequence
OpeningFloats == {1}
ClosingAmounts == {1, 11, 30}
PaymentMethods == {"cash", "card"}
\* CashierCheckout.payment_method: cash, card, digital
AllPaymentMethods == PaymentMethods \cup {"digital"}

\* payment_method is a str the schema does not restrict: the values a POS
\* client may send include ones the comment of line 34 does not list
UnlistedMethod == "upi"
SentPaymentMethods == AllPaymentMethods \cup {UnlistedMethod}

\* a query that leaves out the filter on status
SessionsAnyStatus(vendor) ==
    {i \in DOMAIN registerSessions : registerSessions[i].vendor_id = vendor}

\* the open sessions of a vendor; .first() returns one of them
OpenSessions(vendor) ==
    {i \in DOMAIN registerSessions :
        registerSessions[i].vendor_id = vendor /\ registerSessions[i].status = "open"}

\* register_sessions rows a running open_register will still insert
OpenReserved == Cardinality({q \in Procs : pc[q] = "op_insert"})

\* lines 394-405: the check for an open register
OpenBegin(p, vendor, opening_float, maxSessions) ==
    /\ pc[p] = "idle"
    /\ IF OpenSessions(vendor) # {}
       THEN /\ resp' = "RegisterAlreadyOpen"
            /\ UNCHANGED <<pc, loc>>
       ELSE /\ Len(registerSessions) + OpenReserved < maxSessions
            /\ pc' = [pc EXCEPT ![p] = "op_insert"]
            /\ loc' = [loc EXCEPT ![p] =
                        [kind |-> "open", vendor |-> vendor, opening_float |-> opening_float]]
            /\ UNCHANGED resp
    /\ UNCHANGED <<dbCatalogue, dbPay, dbOrders, dbPos>>

\* lines 408-415 and the column defaults of RegisterSession
NewSession(vendor, opening_float) ==
    [vendor_id |-> vendor, opening_float |-> opening_float,
     closing_amount |-> NoneVal, expected_amount |-> NoneVal, variance |-> NoneVal,
     total_sales |-> 0, total_cash_sales |-> 0, total_card_sales |-> 0,
     total_digital_sales |-> 0, transaction_count |-> 0, status |-> "open"]

\* lines 417-419: the insert and its commit
OpenInsert(p) ==
    /\ pc[p] = "op_insert"
    /\ registerSessions' =
          Append(registerSessions, NewSession(loc[p].vendor, loc[p].opening_float))
    /\ pc' = [pc EXCEPT ![p] = "idle"]
    /\ loc' = [loc EXCEPT ![p] = IdleLoc]
    /\ resp' = "200"
    /\ UNCHANGED <<dbCatalogue, dbPay, dbOrders, stock>>

\* an expected amount that counts card and digital sales as cash
ExpectedFromAllSales(session) ==
    session.opening_float + session.total_sales

\* RegisterSession.calculate_expected_amount
CalculateExpectedAmount(session) ==
    session.opening_float + session.total_cash_sales

VarianceStatus(variance) ==
    IF variance > 0 THEN "over" ELSE IF variance < 0 THEN "short" ELSE "exact"

\* lines 472-484: load the open session and compute from the loaded row
CloseBegin(p, vendor, closing_amount) ==
    /\ pc[p] = "idle"
    /\ IF OpenSessions(vendor) = {}
       THEN /\ resp' = "NoRegisterToClose"
            /\ UNCHANGED <<pc, loc>>
       ELSE \E i \in OpenSessions(vendor) :
            LET expected_amount == CalculateExpectedAmount(registerSessions[i])
                variance == closing_amount - expected_amount
            IN  /\ pc' = [pc EXCEPT ![p] = "cl_commit"]
                /\ loc' = [loc EXCEPT ![p] =
                            [kind |-> "close", session |-> i,
                             closing_amount |-> closing_amount,
                             expected_amount |-> expected_amount,
                             variance |-> variance]]
                /\ UNCHANGED resp
    /\ UNCHANGED <<dbCatalogue, dbPay, dbOrders, dbPos>>

\* lines 487-494: UPDATE register_sessions SET closing_amount, expected_amount,
\* variance, status WHERE id = the loaded session
CloseCommit(p) ==
    /\ pc[p] = "cl_commit"
    /\ LET l == loc[p]
       IN  /\ registerSessions' =
                [registerSessions EXCEPT ![l.session] =
                    [@ EXCEPT !.closing_amount = l.closing_amount,
                              !.expected_amount = l.expected_amount,
                              !.variance = l.variance,
                              !.status = "closed"]]
           /\ resp' = VarianceStatus(l.variance)
    /\ pc' = [pc EXCEPT ![p] = "idle"]
    /\ loc' = [loc EXCEPT ![p] = IdleLoc]
    /\ UNCHANGED <<dbCatalogue, dbPay, dbOrders, stock>>

(***************************************************************************)
(* Cashier checkout (process_cashier_checkout).                            *)
(***************************************************************************)
Line(product, quantity) ==
    [product_id |-> product, quantity |-> quantity, unit_price |-> ProductPrice(product)]

\* the sales a POS client sends: one line, or two lines naming the same product
SingleLineSales == {<<Line(1, 1)>>, <<Line(2, 1)>>, <<Line(1, MaxQuantity)>>}
MultiLineSales == {<<Line(1, 1), Line(1, MaxQuantity)>>}

\* CashierCheckout.total_amount as the POS client computes it
TotalAmount(items) ==
    SumSeq([i \in DOMAIN items |-> items[i].unit_price * items[i].quantity])

\* lines 243-253: every line is compared with the stock of its product
StockOk(items) ==
    \A i \in DOMAIN items : ~(stock[items[i].product_id] < items[i].quantity)

\* lines 224-253: the vendor, the open register session and the stock check
CashierBegin(p, vendor, items, method, maxSales) ==
    /\ pc[p] = "idle"
    /\ IF vendor \notin Vendors
       THEN /\ resp' = "VendorNotFound"
            /\ UNCHANGED <<pc, loc>>
       ELSE IF OpenSessions(vendor) = {}
       THEN /\ resp' = "NoOpenRegister"
            /\ UNCHANGED <<pc, loc>>
       ELSE IF ~StockOk(items)
       THEN /\ resp' = "InsufficientStock"
            /\ UNCHANGED <<pc, loc>>
       ELSE \E i \in OpenSessions(vendor) :
            /\ Len(orders) + Reserved < maxSales
            /\ pc' = [pc EXCEPT ![p] = "ck_order"]
            /\ loc' = [loc EXCEPT ![p] =
                        [kind |-> "checkout", vendor |-> vendor, items |-> items,
                         method |-> method, total_amount |-> TotalAmount(items),
                         session |-> i, order_id |-> 0,
                         newStock |-> <<>>, newSession |-> <<>>]]
            /\ UNCHANGED resp
    /\ UNCHANGED <<dbCatalogue, dbPay, dbOrders, dbPos>>

\* lines 259-277: the Order row of a POS sale
PosOrder(l) ==
    [vendor_id |-> l.vendor,
     total_amount |-> l.total_amount,
     status |-> "Completed",
     razorpay_order_id |-> NoneVal,
     razorpay_payment_id |-> NoneVal,
     order_type |-> "pos",
     payment_method |-> l.method,
     register_session_id |-> l.session]

\* lines 279-281: the Order is inserted and committed on its own; a commit
\* that raises leaves nothing behind
CashierOrder(p, ok) ==
    /\ pc[p] = "ck_order"
    /\ IF ok
       THEN /\ orders' = Append(orders, PosOrder(loc[p]))
            /\ pc' = [pc EXCEPT ![p] = "ck_load"]
            /\ loc' = [loc EXCEPT ![p].order_id = Len(orders) + 1]
            /\ UNCHANGED resp
       ELSE /\ UNCHANGED orders
            /\ pc' = [pc EXCEPT ![p] = "idle"]
            /\ loc' = [loc EXCEPT ![p] = IdleLoc]
            /\ resp' = "PersistenceError"
    /\ UNCHANGED <<dbCatalogue, dbPay, orderItems, dbPos>>

\* lines 284-298: product.stock -= item.quantity, line after line, on the
\* Product objects the session loaded after the commit of line 280
DecrementStock(current, items) ==
    [x \in {items[i].product_id : i \in DOMAIN items} |->
        current[x] - SumSeq([i \in DOMAIN items |->
                               IF items[i].product_id = x THEN items[i].quantity ELSE 0])]

\* totals that count every sale as a cash sale
AddSaleAsCash(session, method, amount) ==
    [session EXCEPT
        !.total_sales = @ + amount,
        !.transaction_count = @ + 1,
        !.total_cash_sales = @ + amount]

\* lines 300-309: the register session object after the += of the totals
AddSale(session, method, amount) ==
    [session EXCEPT
        !.total_sales = @ + amount,
        !.transaction_count = @ + 1,
        !.total_cash_sales = IF method = "cash" THEN @ + amount ELSE @,
        !.total_card_sales = IF method = "card" THEN @ + amount ELSE @,
        !.total_digital_sales = IF method = "digital" THEN @ + amount ELSE @]

\* lines 284-309: the commit of line 280 expired the session's objects, so the
\* products and the register session are read again here; the new values are
\* computed from what was read and kept in the session until line 311
CashierLoad(p) ==
    /\ pc[p] = "ck_load"
    /\ pc' = [pc EXCEPT ![p] = "ck_commit"]
    /\ loc' = [loc EXCEPT
                 ![p].newStock = DecrementStock(stock, loc[p].items),
                 ![p].newSession = AddSale(registerSessions[loc[p].session],
                                           loc[p].method, loc[p].total_amount)]
    /\ UNCHANGED <<dbCatalogue, dbPay, dbOrders, dbPos, resp>>

\* lines 287-295: the OrderItem rows of a POS sale
PosOrderItems(l) ==
    [i \in DOMAIN l.items |->
        [product_id |-> l.items[i].product_id,
         quantity |-> l.items[i].quantity,
         price |-> l.items[i].unit_price,
         vendor_id |-> l.vendor,
         order_id |-> l.order_id]]

\* line 311: the flush writes the OrderItems and the columns the handler
\* assigned (UPDATE ... SET column = value computed by the handler), then
\* commits; a commit that raises loses them and keeps the Order of line 280
CashierCommit(p, ok) ==
    /\ pc[p] = "ck_commit"
    /\ LET l == loc[p]
       IN  IF ok
           THEN /\ orderItems' = orderItems \o PosOrderItems(l)
                /\ stock' = [x \in Products |->
                               IF x \in DOMAIN l.newStock THEN l.newStock[x] ELSE stock[x]]
                /\ registerSessions' =
                      [registerSessions EXCEPT ![l.session] =
                          [@ EXCEPT
                             !.total_sales = l.newSession.total_sales,
                             !.transaction_count = l.newSession.transaction_count,
                             !.total_cash_sales =
                                 IF l.method = "cash" THEN l.newSession.total_cash_sales ELSE @,
                             !.total_card_sales =
                                 IF l.method = "card" THEN l.newSession.total_card_sales ELSE @,
                             !.total_digital_sales =
                                 IF l.method = "digital"
                                 THEN l.newSession.total_digital_sales ELSE @]]
                /\ resp' = "200"
           ELSE /\ UNCHANGED <<orderItems, stock, registerSessions>>
                /\ resp' = "PersistenceError"
    /\ pc' = [pc EXCEPT ![p] = "idle"]
    /\ loc' = [loc EXCEPT ![p] = IdleLoc]
    /\ UNCHANGED <<dbCatalogue, dbPay, orders>>

(***************************************************************************)
(* The point of sale as a system of concurrent requests.                   *)
(***************************************************************************)
VendorIds == Vendors \cup {3}

PosStep(p, vendors, vendorIds, sales, closings, methods, maxSessions, maxSales) ==
    \/ \E v \in vendors, f \in OpeningFloats : OpenBegin(p, v, f, maxSessions)
    \/ OpenInsert(p)
    \/ \E v \in vendors, c \in closings : CloseBegin(p, v, c)
    \/ CloseCommit(p)
    \/ \E v \in vendorIds, items \in sales, m \in methods :
          CashierBegin(p, v, items, m, maxSales)
    \/ \E ok \in BOOLEAN : CashierOrder(p, ok)
    \/ CashierLoad(p)
    \/ \E ok \in BOOLEAN : CashierCommit(p, ok)

\* two request handlers at one register: room for one more session and one
\* more sale than requests in sequence get
NextPos ==
    \E p \in Procs :
        PosStep(p, {1}, {1}, {<<Line(1, 1)>>}, {11}, PaymentMethods,
                MaxSessions + 1, MaxSales + 1)

\* requests handled one after the other
NextPosSeq ==
    PosStep(1, Vendors, VendorIds, SingleLineSales \cup MultiLineSales, ClosingAmounts,
            PaymentMethods, MaxSessions, MaxSales)

\* the registers of two vendors, sales paid by every method; requests handled
\* one after the other
NextTillSeq ==
    PosStep(1, Vendors, Vendors, {<<Line(1, 1)>>}, {11},
            AllPaymentMethods, MaxSessions + 1, MaxSales)

\* the registers of two vendors, sales paid by every method a client may
\* send; requests handled one after the other
NextLedgerSeq ==
    PosStep(1, Vendors, Vendors, {<<Line(1, 1)>>}, {11},
            SentPaymentMethods, MaxSessions + 1, MaxSales)

(***************************************************************************)
(* The web checkout flow as a system of concurrent requests.               *)
(***************************************************************************)
Init ==
    /\ cartItems = {}
    /\ nextCartId = 1
    /\ pendingCheckouts = {}
    /\ nextGatewayId = 1
    /\ orders = <<>>
    /\ orderItems = <<>>
    /\ registerSessions = <<>>
    /\ stock = [p \in Products |-> MaxQuantity]
    /\ pricingTiers = InitialTiers
    /\ quote = NoQuote
    /\ pc = [p \in Procs |-> "idle"]
    /\ loc = [p \in Procs |-> IdleLoc]
    /\ resp = "none"

\* the users who fill a cart and check out; every user may call verify_payment
Shoppers == {1}

PayStep(p) ==
    \/ \E u \in Shoppers, product \in Products : AddToCart(p, u, product, 1, EmptyMeta)
    \/ \E u \in Shoppers : CheckoutPrepare(p, u, <<>>)
    \/ \E u \in Users, o \in GatewayOrderIds, y \in PaymentIds, sig \in Signatures :
          VerifyBegin(p, u, o, y, sig)
    \/ \E outcome \in {"ok", "commit_fails", "items_fail"} : VerifyOrder(p, outcome)
    \/ \E ok \in BOOLEAN : VerifyFinal(p, ok)

NextPay == \E p \in Procs : PayStep(p)

\* requests handled one after the other: a handler runs to its response
\* before the next request starts
NextPaySeq == PayStep(1)

\* the tier tables a vendor may store for a product: any set of tiers, equal
\* moqs included (create_product and update_product do not compare moqs)
TierPrices == {5, 8}
TierRows == {[moq |-> m, price |-> x] : m \in 1..(MaxQuantity + 1), x \in TierPrices}

InitPrice ==
    /\ cartItems = {}
    /\ nextCartId = 1
    /\ pendingCheckouts = {}
    /\ nextGatewayId = 1
    /\ orders = <<>>
    /\ orderItems = <<>>
    /\ registerSessions = <<>>
    /\ stock = [p \in Products |-> MaxQuantity]
    /\ pricingTiers \in {[InitialTiers EXCEPT ![1] = T] : T \in SUBSET TierRows}
    /\ quote = NoQuote
    /\ pc = [p \in Procs |-> "idle"]
    /\ loc = [p \in Procs |-> IdleLoc]
    /\ resp = "none"

NextPrice ==
    \E product \in Products, quantity \in 1..MaxQuantity :
        \/ QuoteCart(product, quantity)
        \/ QuoteCashier(product, quantity)

SpecPrice == InitPrice /\ [][NextPrice]_vars

\* the metadata a shopper sends: none, a size, another size, a size and a note
SizeM == [selected_size |-> "M"]
SizeL == [selected_size |-> "L"]
SizeMGift == [selected_size |-> "M", note |-> "gift"]
Metas == {EmptyMeta, SizeM, SizeL, SizeMGift}
CartItemIds == 1..(MaxCartRows + 1)

\* the cart of the shoppers, requests handled one after the other
NextCartSeq ==
    \/ \E u \in Users, product \in Products, quantity \in 1..MaxQuantity, meta \in Metas :
          AddToCart(1, u, product, quantity, meta)
    \/ \E u \in Users, item_id \in CartItemIds, quantity \in 1..MaxQuantity :
          UpdateCartItem(1, u, item_id, quantity)
    \/ \E u \in Users, item_id \in CartItemIds : RemoveCartItem(1, u, item_id)

\* two add_to_cart requests of one shopper at the same time
NextCart ==
    \E p \in Procs :
        \/ \E product \in Products, quantity \in 1..MaxQuantity, meta \in Metas :
              AddBegin(p, 1, product, quantity, meta)
        \/ AddCommit(p)

\* the selections a shopper sends to checkout: all lines, one line, two
\* lines, a line that does not exist, one line named twice
CartItemIdLists == {<<>>, <<1>>, <<1, 2>>, <<MaxCartRows + 1>>, <<1, 1>>}
\* the tiers a vendor gives product 1 while a checkout awaits payment
TierUpdates == {{}, {[moq |-> 1, price |-> 5]}}

\* a shopper who fills a cart, picks lines and pays, and a second user who
\* names the lines of the first; requests handled one after the other
NextShopSeq ==
    \/ \E meta \in {SizeM, SizeL} : AddToCart(1, 1, 1, 1, meta)
    \/ AddToCart(1, 1, 2, 1, EmptyMeta)
    \/ \E u \in Users, ids \in CartItemIdLists : CheckoutPrepare(1, u, ids)
    \/ \E y \in PaymentIds : VerifyBegin(1, 1, 1, y, HmacSha256(KeySecret, 1, y))
    \/ VerifyOrder(1, "ok")
    \/ VerifyFinal(1, TRUE)

\* a shopper who changes the cart, and a vendor who changes tiers, between
\* checkout and payment; requests handled one after the other
NextSnapSeq ==
    \/ AddToCart(1, 1, 1, 1, EmptyMeta)
    \/ \E quantity \in 1..MaxQuantity : UpdateCartItem(1, 1, 1, quantity)
    \/ RemoveCartItem(1, 1, 1)
    \/ \E tiers \in TierUpdates : SetPricingTiers(1, 1, tiers)
    \/ CheckoutPrepare(1, 1, <<>>)
    \/ \E o \in GatewayOrderIds, y \in PaymentIds :
          VerifyBegin(1, 1, o, y, HmacSha256(KeySecret, o, y))
    \/ VerifyOrder(1, "ok")
    \/ VerifyFinal(1, TRUE)

\* the requests of one user: cart changes, checkout of the whole cart (by
\* the users who check out), payment
OwnStep(u) ==
    \/ AddToCart(1, u, 1, 1, EmptyMeta)
    \/ \E item_id \in 1..MaxCartRows : UpdateCartItem(1, u, item_id, MaxQuantity)
    \/ \E item_id \in 1..MaxCartRows : RemoveCartItem(1, u, item_id)
    \/ (u \in Shoppers /\ CheckoutPrepare(1, u, <<>>))
    \/ \E y \in PaymentIds : VerifyBegin(1, u, 1, y, HmacSha256(KeySecret, 1, y))
    \/ (pc[1] # "idle" /\ loc[1].user = u /\ VerifyOrder(1, "ok"))
    \/ (pc[1] # "idle" /\ loc[1].user = u /\ VerifyFinal(1, TRUE))

\* two users who each fill, change, check out and pay a cart, and who name
\* each other's cart lines; requests handled one after the other
NextOwnSeq == \E u \in Users : OwnStep(u)

\* the selections of the shopper who checks out twice: all lines, one line
StageIdLists == {<<>>, <<1>>}

\* a shopper who fills a cart and sends checkout-prepare twice, the requests
\* running at the same time or one after the other
NextStage ==
    \E p \in Procs :
        \/ \E product \in Products : AddToCart(p, 1, product, 1, EmptyMeta)
        \/ \E ids \in StageIdLists : CheckoutBegin(p, 1, ids, MaxCheckouts + 1)
        \/ \E ok \in BOOLEAN : CheckoutCommit(p, ok)

\* a shopper who checks out one product, and verify_payment calls of every
\* user with every signature, two requests at a time
NextPaid ==
    \E p \in Procs :
        \/ \E u \in Shoppers : AddToCart(p, u, 1, 1, EmptyMeta)
        \/ \E u \in Shoppers : CheckoutPrepare(p, u, <<>>)
        \/ \E u \in Users, o \in GatewayOrderIds, y \in PaymentIds, sig \in Signatures :
              VerifyBegin(p, u, o, y, sig)
        \/ \E outcome \in {"ok", "commit_fails", "items_fail"} : VerifyOrder(p, outcome)
        \/ \E ok \in BOOLEAN : VerifyFinal(p, ok)

SpecCartSeq == Init /\ [][NextCartSeq]_vars
SpecPaid == Init /\ [][NextPaid]_vars
SpecStage == Init /\ [][NextStage]_vars
SpecOwnSeq == Init /\ [][NextOwnSeq]_vars
SpecShopSeq == Init /\ [][NextShopSeq]_vars
SpecSnapSeq == Init /\ [][NextSnapSeq]_vars
SpecCart == Init /\ [][NextCart]_vars

SpecPay == Init /\ [][NextPay]_vars
SpecPaySeq == Init /\ [][NextPaySeq]_vars
SpecPos == Init /\ [][NextPos]_vars
SpecPosSeq == Init /\ [][NextPosSeq]_vars
SpecTillSeq == Init /\ [][NextTillSeq]_vars
SpecLedgerSeq == Init /\ [][NextLedgerSeq]_vars

(***************************************************************************)
(* Properties of payment verification.                                     *)
(***************************************************************************)
CheckoutDb == <<cartItems, pendingCheckouts, orders, orderItems>>

\* the Orders of a table that carry a gateway order id
OnlineOrdersOf(ords, orderId) ==
    {i \in DOMAIN ords : ords[i].order_type = "online" /\ ords[i].razorpay_order_id = orderId}

ItemsOf(order_id) == {i \in DOMAIN orderItems : orderItems[i].order_id = order_id}

\* C1: once a PendingCheckout is completed, a later verify_payment call for
\* it by its owner creates no further Order: the number of Orders carrying
\* its gateway order id does not grow any more.
C1_NoOrderAfterCompleted ==
    [][\A c \in pendingCheckouts :
          c.status = "completed" =>
              Cardinality(OnlineOrdersOf(orders', c.razorpay_order_id))
                  = Cardinality(OnlineOrdersOf(orders, c.razorpay_order_id))]_vars

\* C2: when no verify_payment is running, every PendingCheckout is either
\* completed with all its per-vendor Orders and their OrderItems, or pending
\* with no Order at all.
C2_AllOrNothing ==
    (\A p \in Procs : pc[p] = "idle") =>
        \A c \in pendingCheckouts :
            LET mine == OnlineOrdersOf(orders, c.razorpay_order_id)
            IN  \/ /\ c.status = "completed"
                   /\ Cardinality(mine) = Len(c.prepared_orders)
                   /\ \A i \in mine : ItemsOf(i) # {}
                \/ /\ c.status = "pending"
                   /\ mine = {}

\* C3: of two verify_payment calls running at the same time for the same
\* PendingCheckout, at most one has materialized an Order.
C3_AtMostOneMaterializes ==
    \A p, q \in Procs :
        (/\ p # q
         /\ pc[p] \in {"v_order", "v_final"}
         /\ pc[q] \in {"v_order", "v_final"}
         /\ loc[p].pcid = loc[q].pcid)
        => ~(loc[p].idx > 1 /\ loc[q].idx > 1)

\* C4: a verify_payment call whose signature is not
\* HMAC-SHA256(secret, orderId | paymentId) ends at once with a signature
\* mismatch and leaves cart lines, pending checkouts, orders and order items
\* as they were.
C4_TamperedSignatureRejected ==
    [][\A u \in Users, o \in GatewayOrderIds, y \in PaymentIds, sig \in Signatures :
          (sig # HmacSha256(KeySecret, o, y) /\ VerifyBegin(1, u, o, y, sig))
          => (resp' = "SignatureMismatch" /\ pc' = pc /\ UNCHANGED CheckoutDb)]_vars

\* a tampered call was just rejected while the caller's checkout awaits payment
C4_Witness ==
    /\ resp = "SignatureMismatch"
    /\ \E c \in pendingCheckouts : c.status = "pending"
    /\ orders = <<>>

(***************************************************************************)
(* Properties of the point of sale.                                        *)
(***************************************************************************)
PosOrdersOf(session) ==
    {i \in DOMAIN orders :
        orders[i].order_type = "pos" /\ orders[i].register_session_id = session}

\* C5: no product's stock is ever below zero.
C5_StockNeverNegative == \A x \in Products : stock[x] >= 0

\* C6: each vendor has at most one open register session.
C6_AtMostOneOpen == \A v \in Vendors : Cardinality(OpenSessions(v)) <= 1

\* C7: the step that closes a register stores
\* expected_amount = opening_float + total_cash_sales and
\* variance = closing_amount - expected_amount, sets status closed, and
\* reports over / short / exact as the variance is > 0 / < 0 / = 0.
C7_CloseReconciles ==
    [][\A p \in Procs :
          (pc[p] = "cl_commit" /\ pc'[p] = "idle") =>
              LET s == registerSessions'[loc[p].session]
              IN  /\ s.status = "closed"
                  /\ s.closing_amount = loc[p].closing_amount
                  /\ s.expected_amount = s.opening_float + s.total_cash_sales
                  /\ s.variance = s.closing_amount - s.expected_amount
                  /\ resp' = (IF s.variance > 0 THEN "over"
                              ELSE IF s.variance < 0 THEN "short" ELSE "exact")]_vars

\* a register with cash sales was closed short
C7_Witness ==
    /\ resp = "short"
    /\ \E i \in DOMAIN registerSessions :
          /\ registerSessions[i].status = "closed"
          /\ registerSessions[i].total_cash_sales > 0
          /\ registerSessions[i].variance < 0

\* C8: a cashier checkout for a vendor none of whose register sessions is
\* open ends at once with NoOpenRegister and leaves orders, order items,
\* stock and register sessions as they were.
C8_NoOpenRegisterRejected ==
    [][\A v \in Vendors, items \in SingleLineSales \cup MultiLineSales, m \in PaymentMethods :
          (/\ ~\E i \in DOMAIN registerSessions :
                  registerSessions[i].vendor_id = v /\ registerSessions[i].status = "open"
           /\ CashierBegin(1, v, items, m, MaxSales))
          => (/\ resp' = "NoOpenRegister"
              /\ pc' = pc
              /\ UNCHANGED <<orders, orderItems, stock, registerSessions>>)]_vars

\* a sale was just refused at a vendor whose register had been closed
C8_Witness ==
    /\ resp = "NoOpenRegister"
    /\ registerSessions # <<>>
    /\ \A i \in DOMAIN registerSessions : registerSessions[i].status = "closed"

\* the sales of a session that went through: their OrderItems are stored
CompletedSales(session) == {i \in PosOrdersOf(session) : ItemsOf(i) # {}}

\* C9: every register session counts each sale that went through: its
\* transaction_count, total_sales and payment-method buckets are the count
\* and the sums of those sales.
C9_NoLostUpdates ==
    \A s \in DOMAIN registerSessions :
        LET done == CompletedSales(s)
            amount(S) == SumOver(S, [i \in DOMAIN orders |-> orders[i].total_amount])
        IN  /\ registerSessions[s].transaction_count = Cardinality(done)
            /\ registerSessions[s].total_sales = amount(done)
            /\ registerSessions[s].total_cash_sales =
                  amount({i \in done : orders[i].payment_method = "cash"})
            /\ registerSessions[s].total_card_sales =
                  amount({i \in done : orders[i].payment_method = "card"})

\* C10: when no cashier checkout is running, every POS Order has its
\* OrderItems, and every register session's total_sales and transaction_count
\* are the sum and the count of the Orders linked to it.
C10_CheckoutAtomic ==
    (\A p \in Procs : pc[p] = "idle") =>
        /\ \A i \in DOMAIN orders : orders[i].order_type = "pos" => ItemsOf(i) # {}
        /\ \A s \in DOMAIN registerSessions :
              /\ registerSessions[s].transaction_count = Cardinality(PosOrdersOf(s))
              /\ registerSessions[s].total_sales =
                    SumOver(PosOrdersOf(s), [i \in DOMAIN orders |-> orders[i].total_amount])

(***************************************************************************)
(* Properties of the cart store.                                           *)
(***************************************************************************)
HasVariant(meta) == meta # EmptyMeta /\ (DOMAIN meta \cap VariantKeys) # {}

\* size and color of a metadata map
VariantOf(meta) == <<Get(meta, "selected_size"), Get(meta, "selected_color")>>

\* the identity key of a cart line
IdentityKey(c) ==
    IF HasVariant(c.item_metadata)
    THEN <<c.user_id, c.product_id>> \o VariantOf(c.item_metadata)
    ELSE <<c.user_id, c.product_id>>

\* the in_cart lines of a user and product that carry a variant
VariantLines(rows, u, product, variant) ==
    {c \in rows : /\ c.user_id = u /\ c.product_id = product /\ c.status = "in_cart"
                  /\ HasVariant(c.item_metadata)
                  /\ VariantOf(c.item_metadata) = variant}

\* C11: no two in_cart lines have the same identity key.
C11_OneLinePerIdentity ==
    \A c, d \in cartItems :
        (/\ c.status = "in_cart" /\ d.status = "in_cart"
         /\ IdentityKey(c) = IdentityKey(d)) => c = d

\* C12: an add_to_cart call that names a size/color variant leaves exactly
\* one in_cart line of that user, product and variant, and its quantity is
\* the quantity the variant had before (0 if it had no line) plus the
\* quantity added.
C12_SameVariantMerges ==
    [][\A u \in Users, product \in Products, quantity \in 1..MaxQuantity, meta \in Metas :
          (HasVariant(meta) /\ AddToCart(1, u, product, quantity, meta)) =>
              LET before == VariantLines(cartItems, u, product, VariantOf(meta))
                  after  == VariantLines(cartItems', u, product, VariantOf(meta))
              IN  /\ Cardinality(after) = 1
                  /\ \A c \in after :
                        c.quantity = quantity
                            + SumOver(before, [b \in before |-> b.quantity])]_vars

\* one line of size M holds the quantities of two adds
C12_Witness ==
    \E c \in cartItems :
        /\ c.status = "in_cart" /\ c.quantity = 2
        /\ c.item_metadata = SizeMGift
        /\ Cardinality(VariantLines(cartItems, c.user_id, c.product_id, VariantOf(SizeM))) = 1

\* C13: an add_to_cart call that names a size/color variant changes no cart
\* line of another variant: every line whose variant differs from the one
\* added is the same after the call, so two variants of a product sit in
\* two lines.
C13_VariantsKeptApart ==
    [][\A u \in Users, product \in Products, quantity \in 1..MaxQuantity, meta \in Metas :
          (HasVariant(meta) /\ AddToCart(1, u, product, quantity, meta)) =>
              /\ \A c \in cartItems :
                     ~(/\ c.user_id = u /\ c.product_id = product
                       /\ HasVariant(c.item_metadata)
                       /\ VariantOf(c.item_metadata) = VariantOf(meta))
                     => c \in cartItems'
              /\ VariantLines(cartItems', u, product, VariantOf(meta)) # {}]_vars

\* sizes M and L of one product sit in two lines of one cart
C13_Witness ==
    \E c, d \in cartItems :
        /\ c.user_id = d.user_id /\ c.product_id = d.product_id
        /\ c.status = "in_cart" /\ d.status = "in_cart"
        /\ c.item_metadata = SizeM /\ d.item_metadata = SizeL
        /\ c.quantity = MaxQuantity

(***************************************************************************)
(* Properties of the pricing resolvers.                                    *)
(***************************************************************************)
\* the prices section 4.1 names: the price of a tier of the largest moq <=
\* quantity, else of a tier of the smallest moq, else the flat price
ResolvePrice(tiers, flat, quantity) ==
    LET hit == {t \in tiers : t.moq <= quantity}
    IN  IF hit # {}
        THEN {t.price : t \in {x \in hit : \A u \in hit : x.moq >= u.moq}}
        ELSE IF tiers # {}
        THEN {t.price : t \in {x \in tiers : \A u \in tiers : x.moq <= u.moq}}
        ELSE {flat}

DistinctMoqs(tiers) == \A t, u \in tiers : t.moq = u.moq => t = u

\* what a resolver returned is the price of section 4.1
QuotedRight(q) ==
    q.quantity # 0 =>
        q.price \in ResolvePrice(ProductTiers(q.product), ProductPrice(q.product), q.quantity)

SameInput == quote.cart.quantity # 0 /\ quote.cart.product = quote.cashier.product
                /\ quote.cart.quantity = quote.cashier.quantity

\* C14 as stated: over any tier table, each resolver returns the price of
\* the tier with the largest moq <= quantity (else of the smallest moq, else
\* the flat price), and the two resolvers return the same price for the
\* same product and quantity.
C14_SamePriceForSameInput ==
    /\ QuotedRight(quote.cart)
    /\ QuotedRight(quote.cashier)
    /\ SameInput => quote.cart.price = quote.cashier.price

\* C14, amended: over a tier table in which no two tiers of a product have
\* the same moq, each resolver returns the price of section 4.1 and the two
\* resolvers return the same price for the same product and quantity.
C14_AgreeOnDistinctMoqs ==
    (\A product \in Products : DistinctMoqs(ProductTiers(product))) =>
        /\ QuotedRight(quote.cart)
        /\ QuotedRight(quote.cashier)
        /\ SameInput => quote.cart.price = quote.cashier.price

\* both resolvers fell back on the tier of the smallest moq of two tiers
C14_Witness ==
    /\ ProductTiers(1) = {[moq |-> 2, price |-> 5], [moq |-> 3, price |-> 8]}
    /\ quote.cart = [product |-> 1, quantity |-> 1, price |-> 5]
    /\ quote.cashier = quote.cart

(***************************************************************************)
(* Properties of checkout preparation.                                     *)
(***************************************************************************)
\* the in_cart lines of a user that a request for ids names (all of them
\* when ids is empty)
Selected(u, ids) ==
    {c \in cartItems : /\ c.user_id = u /\ c.status = "in_cart"
                       /\ (ids = <<>> \/ c.id \in SeqToSet(ids))}

\* resolved unit price times quantity, summed over a set of cart lines
LinesAmount(lines) ==
    SumOver(lines, [c \in lines |-> GetPriceCart(c.product_id, c.quantity) * c.quantity])

\* C15: a checkout-prepare that succeeds adds one PendingCheckout, status
\* pending, whose prepared_orders has one entry per vendor of the selected
\* lines, each with the sum of unit price times quantity over the vendor's
\* lines, and whose total_amount is the sum of the entries' totals.
C15_OneEntryPerVendor ==
    [][\A u \in Users, ids \in CartItemIdLists :
          (CheckoutPrepare(1, u, ids) /\ resp' = "200") =>
              LET sel == Selected(u, ids)
                  vs  == {ProductVendor(c.product_id) : c \in sel}
                  of(v) == {c \in sel : ProductVendor(c.product_id) = v}
              IN  \E c \in pendingCheckouts' :
                    /\ c \notin pendingCheckouts
                    /\ pendingCheckouts' = pendingCheckouts \cup {c}
                    /\ c.status = "pending" /\ c.user_id = u
                    /\ Len(c.prepared_orders) = Cardinality(vs)
                    /\ \A v \in vs : \E k \in DOMAIN c.prepared_orders :
                          /\ c.prepared_orders[k].vendor_id = v
                          /\ c.prepared_orders[k].total_amount = LinesAmount(of(v))
                    /\ c.total_amount = SumOver(vs, [v \in vs |-> LinesAmount(of(v))])]_vars

\* a checkout over two lines of one vendor awaits payment
C15_Witness ==
    \E c \in pendingCheckouts :
        /\ c.status = "pending"
        /\ Len(c.prepared_orders) = 1
        /\ Len(c.prepared_orders[1].order_items) = 2
        /\ c.total_amount = c.prepared_orders[1].order_items[1].total_price
                               + c.prepared_orders[1].order_items[2].total_price

\* C16: a checkout-prepare that names an id which is not an in_cart line of
\* the caller ends with InvalidSelection, one that names no id while the
\* caller has no in_cart line ends with NoItemsSelected, and neither asks the
\* gateway for an order nor stores a PendingCheckout.
C16_BadSelectionRejected ==
    [][\A u \in Users, ids \in CartItemIdLists :
          CheckoutPrepare(1, u, ids) =>
              LET mine == {c.id : c \in {d \in cartItems :
                                            d.user_id = u /\ d.status = "in_cart"}}
              IN  /\ (\E i \in DOMAIN ids : ids[i] \notin mine) =>
                        /\ resp' = "InvalidSelection"
                        /\ UNCHANGED <<pendingCheckouts, nextGatewayId>>
                  /\ (ids = <<>> /\ mine = {}) =>
                        /\ resp' = "NoItemsSelected"
                        /\ UNCHANGED <<pendingCheckouts, nextGatewayId>>]_vars

\* a selection was just refused while a line of the cart is in checkout status
C16_Witness ==
    /\ resp = "InvalidSelection"
    /\ \E c \in cartItems : c.status = "checkout"
    /\ \A c \in pendingCheckouts : c.status = "completed"

\* the OrderItems a step adds to the table
NewOrderItems == {orderItems'[i] : i \in (DOMAIN orderItems') \ (DOMAIN orderItems)}

\* C17: every online Order a step adds has the vendor and total of an entry
\* of the prepared_orders stored with its gateway order id, and every
\* OrderItem a step adds has the product, quantity and unit price of a line
\* of that entry, whatever the cart and the tiers are by then.
C17_SnapshotAuthoritative ==
    [][/\ \A i \in (DOMAIN orders') \ (DOMAIN orders) :
             orders'[i].order_type = "online" =>
                 \E c \in pendingCheckouts : \E k \in DOMAIN c.prepared_orders :
                     /\ c.razorpay_order_id = orders'[i].razorpay_order_id
                     /\ c.prepared_orders[k].vendor_id = orders'[i].vendor_id
                     /\ c.prepared_orders[k].total_amount = orders'[i].total_amount
       /\ \A oi \in NewOrderItems :
             orders'[oi.order_id].order_type = "online" =>
                 \E c \in pendingCheckouts : \E k \in DOMAIN c.prepared_orders :
                     \E j \in DOMAIN c.prepared_orders[k].order_items :
                         LET line == c.prepared_orders[k].order_items[j]
                         IN  /\ c.razorpay_order_id = orders'[oi.order_id].razorpay_order_id
                             /\ c.prepared_orders[k].vendor_id = oi.vendor_id
                             /\ line.product_id = oi.product_id
                             /\ line.quantity = oi.quantity
                             /\ line.price = oi.price]_vars

\* verify_payment has inserted an Order whose total is not what the cart line
\* it came from would cost now
C17_Witness ==
    /\ pc[1] = "v_final"
    /\ orders # <<>>
    /\ \E c \in cartItems :
          /\ c.status = "in_cart"
          /\ c.id \in loc[1].cartIds
          /\ orders[Len(orders)].total_amount
                # GetPriceCart(c.product_id, c.quantity) * c.quantity

(***************************************************************************)
(* Properties of order materialization.                                    *)
(***************************************************************************)
\* C18: the Orders that carry the gateway order id of a completed
\* PendingCheckout add up to its total_amount.
C18_MoneyConserved ==
    \A c \in pendingCheckouts :
        c.status = "completed" =>
            SumOver(OnlineOrdersOf(orders, c.razorpay_order_id),
                    [i \in DOMAIN orders |-> orders[i].total_amount]) = c.total_amount

\* the cart line ids a PendingCheckout snapshots
SnapshotCartIds(c) ==
    UNION {SeqToSet(c.prepared_orders[k].cart_item_ids) : k \in DOMAIN c.prepared_orders}

\* C19: when a verify_payment call that found no Order for its gateway order
\* id ends with success on a pending PendingCheckout, each prepared_orders
\* entry has exactly one Order (status Pending, the entry's vendor and total,
\* the payment id attached) with one OrderItem per snapshot line, every cart
\* line of the snapshot is in checkout status, and the PendingCheckout is
\* completed with completed_at set.
C19_FirstVerifyMaterializes ==
    [][(pc[1] = "v_final" /\ VerifyFinal(1, TRUE)) =>
          LET l == loc[1]
              before == SubSeq(orders, 1, Len(orders) - Len(l.prepared))
          IN  (/\ OnlineOrdersOf(before, l.orderId) = {}
               /\ \E c \in pendingCheckouts : c.id = l.pcid /\ c.status = "pending")
              => \E c \in pendingCheckouts' :
                   LET mine == OnlineOrdersOf(orders', c.razorpay_order_id)
                   IN  /\ c.id = l.pcid
                       /\ c.status = "completed"
                       /\ c.completed_at # NoneVal
                       /\ Cardinality(mine) = Len(c.prepared_orders)
                       /\ \A k \in DOMAIN c.prepared_orders :
                             LET entry == c.prepared_orders[k]
                                 os == {i \in mine : orders'[i].vendor_id = entry.vendor_id}
                             IN  /\ Cardinality(os) = 1
                                 /\ \A i \in os :
                                       /\ orders'[i].status = "Pending"
                                       /\ orders'[i].total_amount = entry.total_amount
                                       /\ orders'[i].razorpay_payment_id = l.paymentId
                                       /\ Cardinality({j \in DOMAIN orderItems' :
                                                          orderItems'[j].order_id = i})
                                             = Len(entry.order_items)
                                       /\ \A n \in DOMAIN entry.order_items :
                                             \E j \in DOMAIN orderItems' :
                                                 /\ orderItems'[j].order_id = i
                                                 /\ orderItems'[j].product_id
                                                       = entry.order_items[n].product_id
                                                 /\ orderItems'[j].quantity
                                                       = entry.order_items[n].quantity
                       /\ \A x \in cartItems' :
                             x.id \in SnapshotCartIds(c) => x.status = "checkout"]_vars

\* a checkout over two vendors was paid: two Orders, their items, the cart
\* lines in checkout status
C19_Witness ==
    /\ resp = "200"
    /\ pc[1] = "idle"
    /\ Len(orders) = 2 /\ Len(orderItems) = 2
    /\ orders[1].vendor_id # orders[2].vendor_id
    /\ \E c \in pendingCheckouts :
          c.status = "completed" /\ Len(c.prepared_orders) = 2
    /\ \A x \in cartItems : x.status = "checkout"

C21_UnknownCheckoutRejected ==
    [][\A u \in Users, o \in GatewayOrderIds, y \in PaymentIds :
          (/\ ~\E c \in pendingCheckouts : c.razorpay_order_id = o /\ c.user_id = u
           /\ VerifyBegin(1, u, o, y, HmacSha256(KeySecret, o, y)))
          => (resp' = "PendingCheckoutNotFound" /\ pc' = pc /\ UNCHANGED CheckoutDb)]_vars

\* a call was just refused while the checkout of a shopper awaits payment
\* and nothing was ordered
C21_Witness ==
    /\ resp = "PendingCheckoutNotFound"
    /\ \E c \in pendingCheckouts : c.status = "pending" /\ c.user_id \in Shoppers
    /\ orders = <<>> /\ orderItems = <<>>
    /\ \A c \in cartItems : c.status = "in_cart"

(***************************************************************************)
(* Properties of cart ownership.                                           *)
(***************************************************************************)
\* the cart lines that do not belong to user u
LinesOfOthers(rows, u) == {c \in rows : c.user_id # u}

\* C22: an update-quantity or remove request that names a cart line of
\* another user ends with not-found and leaves every cart line as it was, and
\* no step of a request of a user (add, update, remove, checkout, verify)
\* changes, adds or deletes a cart line of another user.
C22_OwnershipIsolation ==
    [][\A u \in Users :
          /\ \A item_id \in 1..MaxCartRows, quantity \in {MaxQuantity} :
                (/\ \E c \in cartItems : c.id = item_id /\ c.user_id # u
                 /\ (UpdateCartItem(1, u, item_id, quantity) \/ RemoveCartItem(1, u, item_id)))
                => (resp' = "CartItemNotFound" /\ UNCHANGED cartItems)
          /\ OwnStep(u) => LinesOfOthers(cartItems', u) = LinesOfOthers(cartItems, u)]_vars

\* a request that named a line of another user was just refused: the carts of
\* both users hold a line, one paid and one not
C22_Witness ==
    /\ resp = "CartItemNotFound"
    /\ \E c, d \in cartItems :
          /\ c.user_id # d.user_id
          /\ c.status = "checkout" /\ d.status = "in_cart"
    /\ Cardinality(cartItems) = MaxCartRows

(***************************************************************************)
(* Properties of the variant keys of a cart line.                          *)
(***************************************************************************)
\* the size and color entries of a metadata map
VariantPart(meta) == [k \in DOMAIN meta \cap VariantKeys |-> meta[k]]

\* C23: no add_to_cart or update-quantity step changes the selected_size or
\* selected_color stored on a cart line that exists before and after it, nor
\* its user, product or status, and an add_to_cart step changes at most one
\* line: a merging add changes the quantity and the non-variant metadata
\* keys of the line it merges into, and nothing else.
C23_VariantKeysImmutable ==
    [][/\ \A c \in cartItems, d \in cartItems' :
             c.id = d.id =>
                 /\ VariantPart(d.item_metadata) = VariantPart(c.item_metadata)
                 /\ d.user_id = c.user_id
                 /\ d.product_id = c.product_id
                 /\ d.status = c.status
       /\ \A u \in Users, product \in Products, quantity \in 1..MaxQuantity, meta \in Metas :
             AddToCart(1, u, product, quantity, meta) =>
                 /\ Cardinality(cartItems \ cartItems') <= 1
                 /\ \A c \in cartItems : \E d \in cartItems' : d.id = c.id]_vars

\* a line of size M holds the largest quantity and a note, next to a line of
\* size L of the same user and product
C23_Witness ==
    \E c, d \in cartItems :
        /\ c.user_id = d.user_id /\ c.product_id = d.product_id
        /\ c.item_metadata = SizeMGift /\ c.quantity = MaxQuantity
        /\ d.item_metadata = SizeL

(***************************************************************************)
(* Properties of checkout staging.                                         *)
(***************************************************************************)
\* the gateway order ids held by pending checkouts and by running requests
GatewayIdsInUse ==
    {c.razorpay_order_id : c \in pendingCheckouts}
        \cup {loc[q].row.razorpay_order_id : q \in {r \in Procs : pc[r] = "co_commit"}}

\* C24: no step of checkout-prepare changes a cart line; a checkout-prepare
\* request over in_cart lines of the caller goes on to the gateway and gets
\* an order id no other checkout has, whatever pending checkouts and running
\* checkout requests hold the same lines; and its commit adds one
\* PendingCheckout of its own, status pending.
C24_StagingLeavesCart ==
    [][\A p \in Procs :
          /\ \A ids \in StageIdLists :
                CheckoutBegin(p, 1, ids, MaxCheckouts + 1) =>
                    LET mine == {c.id : c \in {d \in cartItems :
                                                  d.user_id = 1 /\ d.status = "in_cart"}}
                    IN  /\ UNCHANGED cartItems
                        /\ (mine # {} /\ \A i \in DOMAIN ids : ids[i] \in mine) =>
                              /\ pc'[p] = "co_commit"
                              /\ loc'[p].row.razorpay_order_id \notin GatewayIdsInUse
          /\ (pc[p] = "co_commit" /\ CheckoutCommit(p, TRUE)) =>
                /\ UNCHANGED cartItems
                /\ resp' = "200"
                /\ \E c \in pendingCheckouts' :
                      /\ c \notin pendingCheckouts
                      /\ pendingCheckouts' = pendingCheckouts \cup {c}
                      /\ c.status = "pending"
                      /\ c.razorpay_order_id = loc[p].row.razorpay_order_id
                      /\ \A d \in pendingCheckouts :
                            d.razorpay_order_id # c.razorpay_order_id /\ d.id # c.id]_vars

\* two checkouts over the same cart lines await payment, the one that asked
\* the gateway first stored last; the lines are still in the cart
C24_Witness ==
    /\ \E c, d \in pendingCheckouts :
          /\ c.id = 1 /\ c.razorpay_order_id = 2
          /\ d.id = 2 /\ d.razorpay_order_id = 1
          /\ c.prepared_orders = d.prepared_orders
          /\ c.status = "pending" /\ d.status = "pending"
    /\ cartItems # {}
    /\ \A x \in cartItems : x.status = "in_cart"

(***************************************************************************)
(* Properties of the origin of Orders.                                     *)
(***************************************************************************)
\* C25: every online Order a step inserts is inserted by a running
\* verify_payment call for the Order's gateway order id whose caller owns the
\* PendingCheckout of that id; a verify_payment call gets past its checks
\* only with the genuine signature for its order id and payment id and with
\* a PendingCheckout of the caller; OrderItems are inserted by verify_payment
\* alone, and no step that changes orders or order items is a step of
\* checkout-prepare.
C25_NoOrderBeforePayment ==
    [][/\ \A i \in (DOMAIN orders') \ (DOMAIN orders) :
             orders'[i].order_type = "online" =>
                 \E p \in Procs :
                     /\ pc[p] = "v_order"
                     /\ loc[p].orderId = orders'[i].razorpay_order_id
                     /\ \E c \in pendingCheckouts :
                           c.razorpay_order_id = loc[p].orderId /\ c.user_id = loc[p].user
       /\ \A p \in Procs, u \in Users, o \in GatewayOrderIds, y \in PaymentIds,
             sig \in Signatures :
             (pc[p] = "idle" /\ pc'[p] # "idle" /\ VerifyBegin(p, u, o, y, sig)) =>
                 /\ sig = HmacSha256(KeySecret, o, y)
                 /\ \E c \in pendingCheckouts : c.razorpay_order_id = o /\ c.user_id = u
                 /\ loc'[p].orderId = o /\ loc'[p].user = u
       /\ orderItems' # orderItems => \E p \in Procs : pc[p] \in {"v_order", "v_final"}
       /\ \A p \in Procs, u \in Shoppers :
             (orders' # orders \/ orderItems' # orderItems)
                 => ~CheckoutPrepare(p, u, <<>>)]_vars

\* the first Order of a checkout is in the table, inserted by the
\* verify_payment call of the owner that is about to complete the checkout
C25_Witness ==
    /\ Len(orders) = 1
    /\ \E p \in Procs :
          /\ pc[p] = "v_final"
          /\ loc[p].orderId = orders[1].razorpay_order_id
          /\ \E c \in pendingCheckouts :
                /\ c.status = "pending"
                /\ c.razorpay_order_id = loc[p].orderId /\ c.user_id = loc[p].user

(***************************************************************************)
(* Properties of closed register sessions.                                 *)
(***************************************************************************)
\* C26: a register session that is closed stays closed, and its total_sales,
\* payment-method buckets, transaction_count, expected_amount and variance
\* are the same after every step.
C26_ClosedIsFinal ==
    [][\A i \in DOMAIN registerSessions :
          registerSessions[i].status = "closed" =>
              LET old == registerSessions[i]
                  new == registerSessions'[i]
              IN  /\ new.status = "closed"
                  /\ new.total_sales = old.total_sales
                  /\ new.total_cash_sales = old.total_cash_sales
                  /\ new.total_card_sales = old.total_card_sales
                  /\ new.total_digital_sales = old.total_digital_sales
                  /\ new.transaction_count = old.transaction_count
                  /\ new.expected_amount = old.expected_amount
                  /\ new.variance = old.variance]_vars

\* C27: the total_sales of every register session is the sum of its cash,
\* card and digital buckets.
C27_BucketsAddUp ==
    \A i \in DOMAIN registerSessions :
        registerSessions[i].total_sales =
            registerSessions[i].total_cash_sales
                + registerSessions[i].total_card_sales
                + registerSessions[i].total_digital_sales

(***************************************************************************)
(* Properties of the products a cashier checkout sells.                    *)
(***************************************************************************)
\* C28: a step that changes the stock of a product is the commit of a
\* cashier checkout for the vendor of that product, and every OrderItem a
\* cashier checkout adds names a product of the vendor the checkout is for.
C28_SellsOwnProducts ==
    [][/\ \A x \in Products :
             stock'[x] # stock[x] =>
                 \E p \in Procs : /\ pc[p] = "ck_commit" /\ pc'[p] = "idle"
                                  /\ ProductVendor(x) = loc[p].vendor
       /\ \A oi \in NewOrderItems :
             orders'[oi.order_id].order_type = "pos" =>
                 ProductVendor(oi.product_id) = oi.vendor_id]_vars

(***************************************************************************)
(* Properties of cart lines that were paid.                                *)
(***************************************************************************)
\* C29: a cart line in checkout status is in the table after every step,
\* with the same quantity and in checkout status.
C29_CheckoutAbsorbing ==
    [][\A c \in cartItems :
          c.status = "checkout" =>
              \E d \in cartItems' :
                  d.id = c.id /\ d.quantity = c.quantity /\ d.status = "checkout"]_vars

(***************************************************************************)
(* Properties of the selection of checkout-prepare.                        *)
(***************************************************************************)
\* C30: a checkout-prepare request whose cart_item_ids all name in_cart
\* lines of the caller, an id named more than once included, is not refused
\* as an invalid selection, and the PendingCheckout it stores snapshots
\* exactly the lines named.
C30_ValidSelectionAccepted ==
    [][\A u \in Users, ids \in CartItemIdLists :
          (/\ ids # <<>>
           /\ \A i \in DOMAIN ids :
                 \E c \in cartItems :
                     c.id = ids[i] /\ c.user_id = u /\ c.status = "in_cart"
           /\ CheckoutPrepare(1, u, ids))
          => /\ resp' # "InvalidSelection"
             /\ \E c \in pendingCheckouts' \ pendingCheckouts :
                   SnapshotCartIds(c) = SeqToSet(ids)]_vars

==========================================================================
